---- MODULE Spec2Model ----
\* kn-editor-core: the CoreText buffer of packages/kn-editor-core/src/lib.rs.
\*
\* lib.rs compiles to one of two builds: with feature "rope" the field `rope`
\* is a ropey::Rope, without it a String.  `feature` is the build and `rope`
\* the field: a sequence of Unicode scalar values (the unit ropey indexes by)
\* in the "rope" build, a sequence of UTF-8 bytes (the unit String indexes
\* by) in the "flat" build.  A call that panics leaves the field as it was.
\* Spec runs one build; SpecPair runs the two builds side by side (`peer` is
\* the String of the flat build) through the same calls.
EXTENDS Integers, Sequences, FiniteSets, TLC

\* ------------------------------------------------------------------ bounds
MaxLen == 3        \* longest buffer explored, in characters
MaxText == 2       \* longest `text` argument, in characters

\* usize::MAX, the value saturating_add saturates at (largest integer of the
\* checker; the arguments reach it, the buffer never does)
UsizeMax == 2147483647

\* the characters explored: 'a' (1 byte) and the euro sign (3 bytes)
Alphabet == {97, 8364}

VARIABLES
  feature,   \* the build: "rope" (cfg feature = "rope") or "flat"
  rope,      \* CoreText.rope
  last,      \* the last call and its arguments
  out,       \* its outcome: returned or panicked, and the value returned
  pre,       \* the field before the last call
  net,       \* initial characters + characters inserted - characters removed
  saved,     \* the insert a following delete may undo, and the field before it
  peer,      \* SpecPair: the field of the flat build run alongside
  outPeer    \* SpecPair: the flat build's outcome of the last call

vars == <<feature, rope, last, out, pre, net, saved, peer, outPeer>>

Min(a, b) == IF a < b THEN a ELSE b

\* ------------------------------------------------------- UTF-8, str, String
\* char::encode_utf8: the bytes of one scalar value
EncodeChar(c) ==
  IF c < 128 THEN <<c>>
  ELSE IF c < 2048 THEN <<192 + (c \div 64), 128 + (c % 64)>>
  ELSE IF c < 65536 THEN
    <<224 + (c \div 4096), 128 + ((c \div 64) % 64), 128 + (c % 64)>>
  ELSE <<240 + (c \div 262144), 128 + ((c \div 4096) % 64),
         128 + ((c \div 64) % 64), 128 + (c % 64)>>

\* the str holding the scalar values cs
RECURSIVE Encode(_)
Encode(cs) == IF cs = <<>> THEN <<>> ELSE EncodeChar(Head(cs)) \o Encode(Tail(cs))

\* width of the encoded character a lead byte starts
Utf8Width(b) == IF b < 128 THEN 1 ELSE IF b < 224 THEN 2 ELSE IF b < 240 THEN 3 ELSE 4

\* str::char_indices: the byte offset at which each character starts
RECURSIVE CharIndicesFrom(_, _)
CharIndicesFrom(s, i) ==
  IF i >= Len(s) THEN <<>>
  ELSE <<i>> \o CharIndicesFrom(s, i + Utf8Width(s[i + 1]))

char_indices(s) == CharIndicesFrom(s, 0)

\* str::chars: the scalar values a str holds
DecodeAt(s, i) ==
  LET b == s[i + 1] IN
  IF b < 128 THEN b
  ELSE IF b < 224 THEN (b - 192) * 64 + (s[i + 2] - 128)
  ELSE IF b < 240 THEN
    (b - 224) * 4096 + (s[i + 2] - 128) * 64 + (s[i + 3] - 128)
  ELSE (b - 240) * 262144 + (s[i + 2] - 128) * 4096
       + (s[i + 3] - 128) * 64 + (s[i + 4] - 128)

chars(s) == LET ci == char_indices(s) IN [k \in 1..Len(ci) |-> DecodeAt(s, ci[k])]

\* str::is_char_boundary
is_char_boundary(s, i) ==
  \/ i = 0
  \/ i = Len(s)
  \/ i < Len(s) /\ ~(s[i + 1] >= 128 /\ s[i + 1] < 192)

\* usize::saturating_add
saturating_add(a, b) == IF a > UsizeMax - b THEN UsizeMax ELSE a + b

Ok(v) == [status |-> "ok", val |-> v]
Panic(v) == [status |-> "panic", val |-> v]

\* ------------------------------------------------- inputs of the operations
CharSeqs(n) == UNION {[1..k -> Alphabet] : k \in 0..n}
Texts == {Encode(cs) : cs \in CharSeqs(MaxText)}
Idx == (0..(MaxLen + 1)) \cup {UsizeMax}

\* ------------------------------------------ ropey::Rope (feature = "rope")
\* Rope::from_str
Rope_from_str(s) == chars(s)

\* Rope::len_chars
Rope_len_chars(r) == Len(r)

\* Rope::insert(char_idx, text): panics when char_idx > len_chars()
Rope_insert(r, char_idx, text) ==
  IF char_idx > Len(r) THEN Panic(r)
  ELSE Ok(SubSeq(r, 1, char_idx) \o chars(text) \o SubSeq(r, char_idx + 1, Len(r)))

\* Rope::remove(start..end): panics when start > end or end > len_chars()
Rope_remove(r, start, end) ==
  IF start > end \/ end > Len(r) THEN Panic(r)
  ELSE Ok(SubSeq(r, 1, start) \o SubSeq(r, end + 1, Len(r)))

\* Rope::slice(start..end).to_string(): panics when start > end or
\* end > len_chars()
Rope_slice(r, start, end) ==
  IF start > end \/ end > Len(r) THEN Panic(<<>>)
  ELSE Ok(Encode(SubSeq(r, start + 1, end)))

\* the text a Rope holds, as the str to_string() gives
Rope_to_string(r) == Encode(r)

\* --------------------------------------------- String (feature off) pieces
\* str::split_at(mid): panics when mid is not on a char boundary
split_at(s, mid) ==
  IF ~is_char_boundary(s, mid) THEN Panic(<<>>)
  ELSE Ok(<<SubSeq(s, 1, mid), SubSeq(s, mid + 1, Len(s))>>)

\* String::replace_range(start..end, ""): panics when start > end or a bound
\* is not on a char boundary
replace_range(s, start, end) ==
  IF start > end \/ ~is_char_boundary(s, start) \/ ~is_char_boundary(s, end)
  THEN Panic(s)
  ELSE Ok(SubSeq(s, 1, start) \o SubSeq(s, end + 1, Len(s)))

\* &s[start..end]: panics when start > end or a bound is not on a char boundary
index_range(s, start, end) ==
  IF start > end \/ ~is_char_boundary(s, start) \/ ~is_char_boundary(s, end)
  THEN Panic(<<>>)
  ELSE Ok(SubSeq(s, start + 1, end))

\* byte_index taking the character index for the byte offset
byte_index_bytes(s, char_idx) == Min(char_idx, Len(s))

\* CoreText::byte_index (feature off): the byte offset of character char_idx,
\* or the byte length when there is no such character
byte_index(s, char_idx) ==
  LET ci == char_indices(s) IN
  IF char_idx < Len(ci) THEN ci[char_idx + 1] ELSE Len(s)

\* ------------------------------------------------- CoreText, feature "rope"
new_rope == <<>>
from_string_rope(s) == Rope_from_str(s)
len_chars_rope(r) == Rope_len_chars(r)
insert_rope(r, char_idx, text) == Rope_insert(r, char_idx, text)
delete_rope(r, char_idx, n) ==
  LET end == saturating_add(char_idx, n) IN Rope_remove(r, char_idx, end)
slice_rope(r, start_char, end_char) == Rope_slice(r, start_char, end_char)

\* ---------------------------------------------- CoreText, feature off
new_flat == <<>>
from_string_flat(s) == s
len_chars_bytes(s) == Len(s)
len_chars_flat(s) == Len(chars(s))

\* insert putting the text after the tail
insert_flat_append(s, char_idx, text) ==
  LET sp == split_at(s, byte_index(s, char_idx)) IN
  IF sp.status = "panic" THEN Panic(s)
  ELSE Ok(sp.val[1] \o sp.val[2] \o text)

insert_flat(s, char_idx, text) ==
  LET sp == split_at(s, byte_index(s, char_idx)) IN
  IF sp.status = "panic" THEN Panic(s)
  ELSE Ok(sp.val[1] \o text \o sp.val[2])

\* delete removing up to, and with, the character at char_idx + n
delete_flat_inclusive(s, char_idx, n) ==
  LET start_b == byte_index(s, char_idx)
      end_b == byte_index(s, saturating_add(saturating_add(char_idx, n), 1))
  IN replace_range(s, start_b, end_b)

delete_flat(s, char_idx, n) ==
  LET start_b == byte_index(s, char_idx)
      end_b == byte_index(s, saturating_add(char_idx, n))
  IN replace_range(s, start_b, end_b)

\* slice indexing the String by the character indices
slice_flat_raw(s, start_char, end_char) ==
  index_range(s, Min(start_char, Len(s)), Min(end_char, Len(s)))

slice_flat(s, start_char, end_char) ==
  LET sb == byte_index(s, start_char)
      eb == byte_index(s, end_char)
  IN index_range(s, sb, eb)

\* ------------------------------------------------- CoreText, either build
CoreText_new(feat) == IF feat = "rope" THEN new_rope ELSE new_flat

CoreText_from_string(feat, s) ==
  IF feat = "rope" THEN from_string_rope(s) ELSE from_string_flat(s)

CoreText_len_chars(feat, r) ==
  IF feat = "rope" THEN len_chars_rope(r) ELSE len_chars_flat(r)

CoreText_insert(feat, r, char_idx, text) ==
  IF feat = "rope" THEN insert_rope(r, char_idx, text)
  ELSE insert_flat(r, char_idx, text)

CoreText_delete(feat, r, char_idx, n) ==
  IF feat = "rope" THEN delete_rope(r, char_idx, n) ELSE delete_flat(r, char_idx, n)

CoreText_slice(feat, r, start_char, end_char) ==
  IF feat = "rope" THEN slice_rope(r, start_char, end_char)
  ELSE slice_flat(r, start_char, end_char)

\* the scalar values the field holds, and the text it holds
Content(feat, r) == IF feat = "rope" THEN r ELSE chars(r)
Text(feat, r) == IF feat = "rope" THEN Rope_to_string(r) ELSE r

\* ------------------------------------------------------------ state machine
NoOut == [status |-> "ok", str |-> <<>>, num |-> 0]
NoSaved == [stage |-> "none", at |-> 0, text |-> <<>>, rope |-> <<>>]
InitTexts == {Encode(cs) : cs \in CharSeqs(MaxLen)}

\* CoreText::new() or CoreText::from_string(s)
Construct(feat, s) ==
  /\ feature = feat
  /\ rope = (IF s = <<>> THEN CoreText_new(feat) ELSE CoreText_from_string(feat, s))
  /\ last = [op |-> "construct", a |-> 0, b |-> 0, text |-> s]
  /\ out = NoOut
  /\ pre = rope
  /\ net = Len(chars(s))
  /\ saved = NoSaved

Init ==
  \E feat \in {"rope", "flat"}, s \in InitTexts :
    /\ Construct(feat, s)
    /\ peer = <<>>
    /\ outPeer = NoOut

\* characters a delete(at, n) that returns removes from a buffer of len chars
Removed(len, at, n) ==
  IF at > len THEN 0 ELSE IF n >= len - at THEN len - at ELSE n

\* insert(char_idx, text)
insert(char_idx, text) ==
  LET r == CoreText_insert(feature, rope, char_idx, text)
      k == Len(chars(text))
  IN /\ CoreText_len_chars(feature, rope) + k <= MaxLen
     /\ rope' = r.val
     /\ last' = [op |-> "insert", a |-> char_idx, b |-> 0, text |-> text]
     /\ out' = [status |-> r.status, str |-> <<>>, num |-> 0]
     /\ pre' = rope
     /\ net' = (IF r.status = "ok" THEN net + k ELSE net)
     /\ saved' = (IF r.status = "ok"
                  THEN [stage |-> "inserted", at |-> char_idx, text |-> text,
                        rope |-> rope]
                  ELSE NoSaved)
     /\ UNCHANGED feature

\* delete(char_idx, len_chars)
delete(char_idx, n) ==
  LET r == CoreText_delete(feature, rope, char_idx, n) IN
  /\ rope' = r.val
  /\ last' = [op |-> "delete", a |-> char_idx, b |-> n, text |-> <<>>]
  /\ out' = [status |-> r.status, str |-> <<>>, num |-> 0]
  /\ pre' = rope
  /\ net' = (IF r.status = "ok"
             THEN net - Removed(CoreText_len_chars(feature, rope), char_idx, n)
             ELSE net)
  /\ saved' = (IF /\ saved.stage = "inserted"
                  /\ char_idx = saved.at
                  /\ n = Len(chars(saved.text))
               THEN [saved EXCEPT !.stage = "deleted"]
               ELSE NoSaved)
  /\ UNCHANGED feature

\* slice(start_char, end_char)
slice(start_char, end_char) ==
  LET r == CoreText_slice(feature, rope, start_char, end_char) IN
  /\ last' = [op |-> "slice", a |-> start_char, b |-> end_char, text |-> <<>>]
  /\ out' = [status |-> r.status, str |-> r.val, num |-> 0]
  /\ pre' = rope
  /\ saved' = NoSaved
  /\ UNCHANGED <<feature, rope, net>>

\* len_chars()
len_chars ==
  /\ last' = [op |-> "len_chars", a |-> 0, b |-> 0, text |-> <<>>]
  /\ out' = [status |-> "ok", str |-> <<>>,
             num |-> CoreText_len_chars(feature, rope)]
  /\ pre' = rope
  /\ saved' = NoSaved
  /\ UNCHANGED <<feature, rope, net>>

Insert == \E at \in Idx, text \in Texts : insert(at, text) /\ UNCHANGED <<peer, outPeer>>
Delete == \E at \in Idx, n \in Idx : delete(at, n) /\ UNCHANGED <<peer, outPeer>>
Slice == \E st \in Idx, en \in Idx : slice(st, en) /\ UNCHANGED <<peer, outPeer>>
LenChars == len_chars /\ UNCHANGED <<peer, outPeer>>

Next == Insert \/ Delete \/ Slice \/ LenChars

Spec == Init /\ [][Next]_vars

\* ------------------------------------------- the two builds, side by side
InitPair ==
  \E s \in InitTexts :
    /\ Construct("rope", s)
    /\ peer = (IF s = <<>> THEN new_flat ELSE from_string_flat(s))
    /\ outPeer = NoOut

PairInsert ==
  \E at \in Idx, text \in Texts :
    LET f == insert_flat(peer, at, text) IN
    /\ len_chars_flat(peer) + Len(chars(text)) <= MaxLen
    /\ insert(at, text)
    /\ peer' = f.val
    /\ outPeer' = [status |-> f.status, str |-> <<>>, num |-> 0]

PairDelete ==
  \E at \in Idx, n \in Idx :
    LET f == delete_flat(peer, at, n) IN
    /\ delete(at, n)
    /\ peer' = f.val
    /\ outPeer' = [status |-> f.status, str |-> <<>>, num |-> 0]

PairSlice ==
  \E st \in Idx, en \in Idx :
    LET f == slice_flat(peer, st, en) IN
    /\ slice(st, en)
    /\ outPeer' = [status |-> f.status, str |-> f.val, num |-> 0]
    /\ UNCHANGED peer

PairLenChars ==
  /\ len_chars
  /\ outPeer' = [status |-> "ok", str |-> <<>>, num |-> len_chars_flat(peer)]
  /\ UNCHANGED peer

NextPair == PairInsert \/ PairDelete \/ PairSlice \/ PairLenChars

SpecPair == InitPair /\ [][NextPair]_vars

\* ------------------------------------------------------------- properties
PreLen == CoreText_len_chars(feature, pre)
PreChars == Content(feature, pre)
CurLen == CoreText_len_chars(feature, rope)
MultiByte(s) == \E k \in 1..Len(s) : s[k] >= 128
ClampedEnd == IF last.b >= PreLen - last.a THEN PreLen ELSE last.a + last.b

RECURSIVE SumWidths(_)
SumWidths(cs) ==
  IF cs = <<>> THEN 0 ELSE Len(EncodeChar(Head(cs))) + SumWidths(Tail(cs))

\* C1: an insert(at, text) with at <= length returns, the text held is the
\* first `at` old characters, then `text`, then the remaining old characters,
\* and the length grows by the number of characters of `text`.
C1_InsertSplices ==
  (last.op = "insert" /\ last.a <= PreLen) =>
    /\ out.status = "ok"
    /\ Text(feature, rope) =
         Encode(SubSeq(PreChars, 1, last.a) \o chars(last.text)
                \o SubSeq(PreChars, last.a + 1, PreLen))
    /\ CurLen = PreLen + Len(chars(last.text))

\* an append (at = length) of multi-byte text to a multi-byte String
C1_Witness ==
  /\ feature = "flat"
  /\ last.op = "insert"
  /\ last.a = PreLen
  /\ PreLen > 0
  /\ MultiByte(pre)
  /\ MultiByte(last.text)
  /\ out.status = "ok"

\* C2: an insert(at, text) with at > length panics and leaves the buffer as
\* it was.
C2_InsertPastEndFails ==
  (last.op = "insert" /\ last.a > PreLen) =>
    /\ out.status = "panic"
    /\ rope = pre

\* C3: a delete(at, count) with at <= length returns, whatever the count, and
\* removes the characters in [at, min(at + count, length)).
C3_DeleteClamps ==
  (last.op = "delete" /\ last.a <= PreLen) =>
    /\ out.status = "ok"
    /\ Text(feature, rope) =
         Encode(SubSeq(PreChars, 1, last.a) \o SubSeq(PreChars, ClampedEnd + 1, PreLen))
    /\ CurLen = PreLen - (ClampedEnd - last.a)

\* C4: a delete(at, count) with at > length panics, whatever the count, and
\* leaves the buffer as it was.
C4_DeletePastEndFails ==
  (last.op = "delete" /\ last.a > PreLen) =>
    /\ out.status = "panic"
    /\ rope = pre

\* C5: a slice(start, end) with start > end or an index beyond the length
\* panics; it returns no truncated or clamped text.
C5_SliceOutOfRangeFails ==
  (last.op = "slice" /\ (last.a > last.b \/ last.a > PreLen \/ last.b > PreLen)) =>
    out.status = "panic"

\* C6: a slice(start, end) with start <= end <= length returns the characters
\* at positions start..end-1, counted in characters, and leaves the buffer as
\* it was.
C6_SliceReturnsRange ==
  (last.op = "slice" /\ last.a <= last.b /\ last.b <= PreLen) =>
    /\ out.status = "ok"
    /\ out.str = Encode(SubSeq(PreChars, last.a + 1, last.b))
    /\ rope = pre

\* a slice of a multi-byte String that starts after a multi-byte character
C6_Witness ==
  /\ feature = "flat"
  /\ last.op = "slice"
  /\ 0 < last.a
  /\ last.a < last.b
  /\ last.b <= PreLen
  /\ MultiByte(SubSeq(pre, 1, byte_index(pre, last.a)))
  /\ MultiByte(out.str)

\* C7: the length in characters is the initial character count plus the
\* characters inserted minus the characters removed, len_chars() returns it,
\* and it differs from the byte count when a multi-byte character is held.
C7_LengthIsNetCount ==
  /\ CurLen = net
  /\ last.op = "len_chars" => out.num = net
  /\ MultiByte(Text(feature, rope)) => CurLen # Len(Text(feature, rope))

\* a clamped delete (at + count past the end) from a multi-byte String that
\* leaves a multi-byte character behind
C7_Witness ==
  /\ feature = "flat"
  /\ last.op = "delete"
  /\ out.status = "ok"
  /\ 0 < last.a
  /\ last.a < PreLen
  /\ last.b > PreLen - last.a
  /\ CurLen = net
  /\ MultiByte(rope)

\* C8: insert(p, text) with p <= length followed by delete(p, characters of
\* text) returns and leaves the text and the length as they were before the
\* insert.
C8_DeleteUndoesInsert ==
  (saved.stage = "deleted" /\ saved.at <= CoreText_len_chars(feature, saved.rope)) =>
    /\ out.status = "ok"
    /\ rope = saved.rope
    /\ CurLen = CoreText_len_chars(feature, saved.rope)

\* multi-byte text inserted inside a multi-byte buffer and deleted again
C8_Witness ==
  /\ saved.stage = "deleted"
  /\ last.op = "delete"
  /\ 0 < saved.at
  /\ saved.at < CoreText_len_chars(feature, saved.rope)
  /\ MultiByte(saved.text)
  /\ MultiByte(Text(feature, saved.rope))
  /\ feature = "flat"

\* C9: run side by side through the same calls, the rope build and the flat
\* build hold the same text and give the same outcome after every call.
C9_BuildsAgree ==
  /\ out.status = outPeer.status
  /\ out.str = outPeer.str
  /\ out.num = outPeer.num
  /\ Text("rope", rope) = peer

\* C10: in the flat build byte_index maps every i in 0..length to the summed
\* byte widths of the first i characters, always a char boundary; insert and
\* delete never panic, slice panics only on start > end, and the String (and
\* a returned slice) is valid UTF-8 after every call.
C10_ByteIndexOnBoundary ==
  feature = "flat" =>
    /\ \A i \in 0..CurLen :
         /\ byte_index(rope, i) = SumWidths(SubSeq(chars(rope), 1, i))
         /\ is_char_boundary(rope, byte_index(rope, i))
    /\ Encode(chars(rope)) = rope
    /\ Encode(chars(out.str)) = out.str
    /\ last.op \in {"insert", "delete"} => out.status = "ok"
    /\ (last.op = "slice" /\ out.status = "panic") =>
         byte_index(pre, last.a) > byte_index(pre, last.b)

\* an insert between two characters of a String whose byte offsets are not
\* its character offsets
C10_Witness ==
  /\ feature = "flat"
  /\ last.op = "insert"
  /\ out.status = "ok"
  /\ 0 < last.a
  /\ last.a < PreLen
  /\ byte_index(pre, last.a) > last.a
  /\ byte_index(rope, CurLen) = Len(rope)

====
